---- MODULE Spec2Model ----
(***************************************************************************)
(* Model of the budget-notes command/handler pair and of the budget-list   *)
(* derivation of the select-budget page.                                   *)
(*                                                                         *)
(* Strings whose characters matter (budget ids, note content, author ids)  *)
(* are sequences of one-character strings.  A template literal             *)
(* `${prefix}${arg}` is the pair <<prefix, arg>>.                          *)
(***************************************************************************)
EXTENDS Integers, Sequences, FiniteSets, TLC

VARIABLES
    \* the repository and the executions of AddNoteToBudgetHandler.execute
    budgets,        \* the budget documents: [orgId, key, id]
    notes,          \* the note documents: [orgId, budgetId, key, data]
    now,            \* Date.now()
    pc,             \* per execution: "idle" | "getDocById" | "create" | "done"
    command,        \* per execution: the command
    orgId,          \* per execution: const orgId
    note,           \* per execution: const note
    outcome,        \* per execution: what execute gave its caller
    accesses,       \* per execution: the repository calls made, in order
    succeeded,      \* the [orgId, budgetId, noteId] of every success so far
    executes,       \* the executions started
    deletes,        \* the budgets deleted
    \* extractOrgId called on its own
    budgetIdArg,    \* the argument
    orgIdStage,     \* "call" | "returned"
    orgIdRet,       \* the value returned
    \* a command through construction, toObject and fromObject
    ctorArgs,       \* the constructor's arguments
    cmdStage,       \* "new" | "threw" | "constructed" | "serialized" | "restored"
    constructed,    \* what the constructor gave
    serialized,     \* toObject() of it
    restored,       \* fromObject() of that
    \* the signals of SelectBudgetPageComponent
    overview,       \* toSignal(_orgBudgets$$.get())
    sharedBudgets,  \* toSignal(_budgets$$.get())
    allBudgets,     \* computed
    budgetCount     \* computed

orgIdVars == << budgetIdArg, orgIdStage, orgIdRet >>

commandVars == << ctorArgs, cmdStage, constructed, serialized, restored >>

pageVars == << overview, sharedBudgets, allBudgets, budgetCount >>

handlerVars ==
    << budgets, notes, now, pc, command, orgId, note, outcome, accesses,
       succeeded, executes, deletes >>

vars == << handlerVars, orgIdVars, commandVars, pageVars >>

\* ------------------------------------------------------------------------
\* Bounds of the model
\* ------------------------------------------------------------------------
MaxPieces == 6

MaxExecutes == 2

MaxClock == 1

MaxDeletes == 1

MaxItems == 2

\* ------------------------------------------------------------------------
\* JavaScript values that are not strings / objects
\* ------------------------------------------------------------------------
\* null / undefined where a string is expected, and a value of another type
\* (strings are tuples of characters, so these are tuples that are no string)
Null == << "<null>" >>

NotAString == << "<not-a-string>" >>

US == "_"

SP == " "

\* ------------------------------------------------------------------------
\* String helpers (String.prototype.*)
\* ------------------------------------------------------------------------
IsString(s) == s \in Seq({"o", "r", "g", "b", "u", "d", "e", "t", "x", "4", "2", "9",
                          "a", "l", "p", "h", "m", "s", US, SP})

\* s.startsWith(pre, from) with a 1-based position
StartsWithAt(s, pre, from) ==
    /\ from + Len(pre) - 1 <= Len(s)
    /\ \A k \in 1..Len(pre) : s[from + k - 1] = pre[k]

\* index of the first underscore at or after position i, Len(s)+1 when none
RECURSIVE NextUnderscore(_, _)
NextUnderscore(s, i) ==
    IF i > Len(s) THEN Len(s) + 1
    ELSE IF s[i] = US THEN i
    ELSE NextUnderscore(s, i + 1)

\* budgetId.split('_')
RECURSIVE Split(_)
Split(s) ==
    LET j == NextUnderscore(s, 1)
    IN  IF j > Len(s) THEN << s >>
        ELSE << SubSeq(s, 1, j - 1) >> \o Split(SubSeq(s, j + 1, Len(s)))

\* budgetId.trim() === '' for strings whose only white space is the blank
RECURSIVE TrimLeft(_)
TrimLeft(s) ==
    IF s = << >> THEN s
    ELSE IF Head(s) = SP THEN TrimLeft(Tail(s))
    ELSE s

RECURSIVE TrimRight(_)
TrimRight(s) ==
    IF s = << >> THEN s
    ELSE IF s[Len(s)] = SP THEN TrimRight(SubSeq(s, 1, Len(s) - 1))
    ELSE s

Trim(s) == TrimRight(TrimLeft(s))

OrgPrefix == << "o", "r", "g", US >>

BudgetInfix == << US, "b", "u", "d", "g", "e", "t", US >>

\* budgetId.match(/^(org_[^_]+)_budget_/): the captured group, or Null
RegexMatch(budgetId) ==
    IF ~ StartsWithAt(budgetId, OrgPrefix, 1) THEN Null
    ELSE LET e == NextUnderscore(budgetId, Len(OrgPrefix) + 1)
         IN  IF e > Len(OrgPrefix) + 1 /\ StartsWithAt(budgetId, BudgetInfix, e)
             THEN SubSeq(budgetId, 1, e - 1)
             ELSE Null

extractOrgId_firstSegment(budgetId) ==
    IF ~ IsString(budgetId) THEN Null
    ELSE LET match == RegexMatch(budgetId)
             parts == Split(budgetId)
         IN  IF match # Null THEN match
             ELSE IF Len(parts) >= 2 THEN parts[1]
             ELSE budgetId

extractOrgId(budgetId) ==
    IF ~ IsString(budgetId) THEN Null
    ELSE LET match == RegexMatch(budgetId)
             parts == Split(budgetId)
         IN  IF match # Null THEN match
             ELSE IF Len(parts) >= 2 THEN parts[1] \o << US >> \o parts[2]
             ELSE budgetId

\* ------------------------------------------------------------------------
\* Note content: a string given by its runs of equal characters, so that
\* contents longer than the maximum length can be written down
\* ------------------------------------------------------------------------
MaxContentLength == 5000

Run(ch, n) == [ch |-> ch, n |-> n]

Content(runs) == [isNull |-> FALSE, runs |-> runs]

NullContent == [isNull |-> TRUE, runs |-> << >>]

\* noteContent.length
RECURSIVE RunsLength(_)
RunsLength(r) ==
    IF r = << >> THEN 0 ELSE Head(r).n + RunsLength(Tail(r))

ContentLength(c) == RunsLength(c.runs)

\* the runs that remain after dropping leading blank runs
RECURSIVE RunsTrimLeft(_)
RunsTrimLeft(r) ==
    IF r = << >> THEN r
    ELSE IF Head(r).ch = SP \/ Head(r).n = 0 THEN RunsTrimLeft(Tail(r))
    ELSE r

\* noteContent.trim() === ''
ContentTrimIsEmpty(c) == RunsTrimLeft(c.runs) = << >>

\* !noteContent
ContentFalsy(c) == c.isNull \/ ContentLength(c) = 0

\* ------------------------------------------------------------------------
\* Date: the time value is kept as (day, ms within the day), i.e.
\* time = day * 86400000 + ms; NaN is the time value of an invalid Date
\* ------------------------------------------------------------------------
MsPerDay == 86400000

Date(day, ms) == [kind |-> "Date", nan |-> FALSE, day |-> day, ms |-> ms]

\* new Date(t) for a time value t in milliseconds
DateOf(t) == Date(t \div MsPerDay, t % MsPerDay)

InvalidDate == [kind |-> "Date", nan |-> TRUE, day |-> 0, ms |-> 0]

\* what a caller can pass instead of a Date
NullDate == [kind |-> "null", nan |-> FALSE, day |-> 0, ms |-> 0]

UndefinedDate == [kind |-> "undefined", nan |-> FALSE, day |-> 0, ms |-> 0]

StringDate == [kind |-> "string", nan |-> FALSE, day |-> 0, ms |-> 0]

\* createdAt && createdAt instanceof Date
IsDate(d) == d.kind = "Date"

\* isNaN(date.getTime())
IsNaNTime(d) == d.nan

\* Date.prototype.toISOString: the calendar fields the string prints
toISOString_noMillis(d) ==
    LET z   == d.day + 719468
        era == z \div 146097
        doe == z - era * 146097
        yoe == (doe - doe \div 1460 + doe \div 36524 - doe \div 146096) \div 365
        doy == doe - (365 * yoe + yoe \div 4 - yoe \div 100)
        mp  == (5 * doy + 2) \div 153
        dd  == doy - (153 * mp + 2) \div 5 + 1
        mm  == IF mp < 10 THEN mp + 3 ELSE mp - 9
        yy  == yoe + era * 400 + (IF mm <= 2 THEN 1 ELSE 0)
    IN  [year |-> yy, month |-> mm, date |-> dd,
         hours |-> d.ms \div 3600000,
         minutes |-> (d.ms \div 60000) % 60,
         seconds |-> (d.ms \div 1000) % 60,
         millis |-> 0]

toISOString(d) ==
    LET z   == d.day + 719468
        era == z \div 146097
        doe == z - era * 146097
        yoe == (doe - doe \div 1460 + doe \div 36524 - doe \div 146096) \div 365
        doy == doe - (365 * yoe + yoe \div 4 - yoe \div 100)
        mp  == (5 * doy + 2) \div 153
        dd  == doy - (153 * mp + 2) \div 5 + 1
        mm  == IF mp < 10 THEN mp + 3 ELSE mp - 9
        yy  == yoe + era * 400 + (IF mm <= 2 THEN 1 ELSE 0)
    IN  [year |-> yy, month |-> mm, date |-> dd,
         hours |-> d.ms \div 3600000,
         minutes |-> (d.ms \div 60000) % 60,
         seconds |-> (d.ms \div 1000) % 60,
         millis |-> d.ms % 1000]

\* new Date(isoString): Date.parse of the printed fields; fields out of
\* range give an invalid Date
ParseDate(iso) ==
    IF ~ (/\ iso.month \in 1..12 /\ iso.date \in 1..31 /\ iso.hours \in 0..23
          /\ iso.minutes \in 0..59 /\ iso.seconds \in 0..59 /\ iso.millis \in 0..999)
    THEN InvalidDate
    ELSE LET y   == iso.year - (IF iso.month <= 2 THEN 1 ELSE 0)
             era == y \div 400
             yoe == y - era * 400
             mp  == IF iso.month > 2 THEN iso.month - 3 ELSE iso.month + 9
             doy == (153 * mp + 2) \div 5 + iso.date - 1
             doe == yoe * 365 + yoe \div 4 - yoe \div 100 + doy
         IN  Date(era * 146097 + doe - 719468,
                  iso.hours * 3600000 + iso.minutes * 60000
                  + iso.seconds * 1000 + iso.millis)

\* ------------------------------------------------------------------------
\* AddNoteToBudgetCommand
\* ------------------------------------------------------------------------
MsgBudgetIdRequired == << "Budget ID is required" >>

MsgContentRequired == << "Note content is required" >>

MsgContentTooLong(len) ==
    << "Note content exceeds maximum length (5000 chars, got ", len, ")" >>

MsgAuthorIdRequired == << "Author ID is required" >>

MsgCreatedNotDate == << "Created date must be a valid Date object" >>

MsgCreatedInvalid == << "Created date is invalid" >>

\* !s || s.trim() === ''
Falsy(s) == s = Null \/ s = << >>

validate_firstOnly(budgetId, noteContent, authorId, createdAt) ==
    IF Falsy(budgetId) \/ Trim(budgetId) = << >> THEN << MsgBudgetIdRequired >>
    ELSE IF ContentFalsy(noteContent) \/ ContentTrimIsEmpty(noteContent)
         THEN << MsgContentRequired >>
    ELSE IF ContentLength(noteContent) > MaxContentLength
         THEN << MsgContentTooLong(ContentLength(noteContent)) >>
    ELSE IF Falsy(authorId) \/ Trim(authorId) = << >> THEN << MsgAuthorIdRequired >>
    ELSE IF ~ IsDate(createdAt) THEN << MsgCreatedNotDate >>
    ELSE IF IsNaNTime(createdAt) THEN << MsgCreatedInvalid >>
    ELSE << >>

validate_budgetIdUnchecked(budgetId, noteContent, authorId, createdAt) ==
    LET e2 == IF ContentFalsy(noteContent) \/ ContentTrimIsEmpty(noteContent)
              THEN << MsgContentRequired >>
              ELSE IF ContentLength(noteContent) > MaxContentLength
              THEN << MsgContentTooLong(ContentLength(noteContent)) >>
              ELSE << >>
        e3 == IF Falsy(authorId) \/ Trim(authorId) = << >>
              THEN << MsgAuthorIdRequired >> ELSE << >>
        e4 == IF ~ IsDate(createdAt)
              THEN << MsgCreatedNotDate >>
              ELSE IF IsNaNTime(createdAt) THEN << MsgCreatedInvalid >>
              ELSE << >>
    IN  e2 \o e3 \o e4

\* the errors array at the end of validate()
validate(budgetId, noteContent, authorId, createdAt) ==
    LET e1 == IF Falsy(budgetId) \/ Trim(budgetId) = << >>
              THEN << MsgBudgetIdRequired >> ELSE << >>
        e2 == IF ContentFalsy(noteContent) \/ ContentTrimIsEmpty(noteContent)
              THEN << MsgContentRequired >>
              ELSE IF ContentLength(noteContent) > MaxContentLength
              THEN << MsgContentTooLong(ContentLength(noteContent)) >>
              ELSE << >>
        e3 == IF Falsy(authorId) \/ Trim(authorId) = << >>
              THEN << MsgAuthorIdRequired >> ELSE << >>
        e4 == IF ~ IsDate(createdAt)
              THEN << MsgCreatedNotDate >>
              ELSE IF IsNaNTime(createdAt) THEN << MsgCreatedInvalid >>
              ELSE << >>
    IN  e1 \o e2 \o e3 \o e4

\* new AddNoteToBudgetCommand(...): the instance (threw = FALSE), or the Error
\* thrown, whose message is "Command validation failed: " and errors.join(', ')
NewCommand(budgetId, noteContent, authorId, createdAtArg, clock) ==
    LET createdAt == IF createdAtArg = UndefinedDate THEN DateOf(clock) ELSE createdAtArg
        errors    == validate(budgetId, noteContent, authorId, createdAt)
    IN  IF Len(errors) > 0
        THEN [threw |-> TRUE, errors |-> errors,
              budgetId |-> budgetId, noteContent |-> noteContent,
              authorId |-> authorId, createdAt |-> createdAt]
        ELSE [threw |-> FALSE, errors |-> errors,
              budgetId |-> budgetId, noteContent |-> noteContent,
              authorId |-> authorId, createdAt |-> createdAt]

toObject_secondsOnly(c) ==
    [budgetId |-> c.budgetId, noteContent |-> c.noteContent,
     authorId |-> c.authorId, createdAt |-> toISOString_noMillis(c.createdAt)]

toObject(c) ==
    [budgetId |-> c.budgetId, noteContent |-> c.noteContent,
     authorId |-> c.authorId, createdAt |-> toISOString(c.createdAt)]

fromObject(data, clock) ==
    NewCommand(data.budgetId, data.noteContent, data.authorId,
               ParseDate(data.createdAt), clock)

\* ------------------------------------------------------------------------
\* extractOrgId on its own: every budget id built from a few pieces
\* ------------------------------------------------------------------------
Pieces ==
    { << "o", "r", "g" >>, << US >>, << "b", "u", "d", "g", "e", "t" >>,
      << "x" >>, << "4", "2" >> }

RECURSIVE Concats(_)
Concats(n) ==
    IF n = 0 THEN { << >> }
    ELSE LET shorter == Concats(n - 1)
         IN  shorter \cup { a \o b : a \in shorter, b \in Pieces }

IdOrg42Budget99 ==
    << "o", "r", "g", US, "4", "2", US, "b", "u", "d", "g", "e", "t", US, "9", "9" >>

IdAlphaBetaGamma ==
    << "a", "l", "p", "h", "a", US, "b", "e", "t", "a", US, "g", "a", "m", "m", "a" >>

IdSolo == << "s", "o", "l", "o" >>

BudgetIdInputs ==
    Concats(MaxPieces) \cup { IdOrg42Budget99, IdAlphaBetaGamma, IdSolo, NotAString }

OrgIdIdle ==
    /\ budgetIdArg = << >>
    /\ orgIdStage = "returned"
    /\ orgIdRet = << >>

OrgIdInit ==
    /\ budgetIdArg \in BudgetIdInputs
    /\ orgIdStage = "call"
    /\ orgIdRet = << >>

CallExtractOrgId ==
    /\ orgIdStage = "call"
    /\ orgIdRet' = extractOrgId(budgetIdArg)
    /\ orgIdStage' = "returned"
    /\ UNCHANGED budgetIdArg

\* ------------------------------------------------------------------------
\* A command through its constructor, toObject and fromObject
\* ------------------------------------------------------------------------
StringArgs ==
    { Null, << >>, << SP >>, << SP, SP >>, << "x" >>, << SP, "x", SP >> }

ContentArgs ==
    { NullContent,
      Content(<< >>),
      Content(<< Run(SP, 1) >>),
      Content(<< Run(SP, MaxContentLength + 1) >>),
      Content(<< Run("a", 1) >>),
      Content(<< Run("a", MaxContentLength) >>),
      Content(<< Run("a", MaxContentLength + 1) >>),
      Content(<< Run(SP, 1), Run("a", MaxContentLength - 1) >>),
      Content(<< Run(SP, 1), Run("a", MaxContentLength) >>) }

\* days since the epoch: 1969-12-31, 1970-01-01, 1970-02-28, 1970-03-01,
\* 2024-02-29, 2024-03-01, 0000-01-01, -0001-12-31, 9999-12-31, +010000-01-01
DayArgs ==
    { -1, 0, 58, 59, 19782, 19783, -719528, -719529, 2932896, 2932897 }

MsArgs == { 0, 1, 999, 1000, 45296789, MsPerDay - 1 }

DateArgs ==
    { UndefinedDate, NullDate, StringDate, InvalidDate }
        \cup { Date(d, m) : d \in DayArgs, m \in MsArgs }

NoCommand == NewCommand(Null, NullContent, Null, NullDate, 0)

NoObject == toObject(NewCommand(<< "x" >>, Content(<< Run("a", 1) >>), << "x" >>, Date(0, 0), 0))

CommandIdle ==
    /\ ctorArgs = [budgetId |-> Null, noteContent |-> NullContent,
                   authorId |-> Null, createdAt |-> NullDate]
    /\ cmdStage = "threw"
    /\ constructed = NoCommand
    /\ serialized = NoObject
    /\ restored = NoCommand

CommandInit ==
    /\ ctorArgs \in [budgetId : StringArgs, noteContent : ContentArgs,
                     authorId : StringArgs, createdAt : DateArgs]
    /\ cmdStage = "new"
    /\ constructed = NoCommand
    /\ serialized = NoObject
    /\ restored = NoCommand

Construct ==
    /\ cmdStage = "new"
    /\ constructed' = NewCommand(ctorArgs.budgetId, ctorArgs.noteContent,
                                 ctorArgs.authorId, ctorArgs.createdAt, 0)
    /\ cmdStage' = IF constructed'.threw THEN "threw" ELSE "constructed"
    /\ UNCHANGED << ctorArgs, serialized, restored >>

Serialize ==
    /\ cmdStage = "constructed"
    /\ serialized' = toObject(constructed)
    /\ cmdStage' = "serialized"
    /\ UNCHANGED << ctorArgs, constructed, restored >>

Deserialize ==
    /\ cmdStage = "serialized"
    /\ restored' = fromObject(serialized, 0)
    /\ cmdStage' = "restored"
    /\ UNCHANGED << ctorArgs, constructed, serialized >>

\* ------------------------------------------------------------------------
\* SelectBudgetPageComponent: the signals and what is computed from them.
\* A value a store emits is null or an array; an element of an array is a
\* budget record, null, or an array again.
\* ------------------------------------------------------------------------
NullValue == [isNull |-> TRUE, items |-> << >>]

ArrayValue(items) == [isNull |-> FALSE, items |-> items]

BudgetRec(name, startYear, duration) ==
    [kind |-> "record", name |-> name, startYear |-> startYear,
     duration |-> duration, elems |-> << >>]

NullElem ==
    [kind |-> "null", name |-> "", startYear |-> 0, duration |-> 0, elems |-> << >>]

ArrayElem(elems) ==
    [kind |-> "array", name |-> "", startYear |-> 0, duration |-> 0, elems |-> elems]

\* __flatMap(collection): lodash flatMap with the identity, one level
RECURSIVE flatMap(_)
flatMap(items) ==
    IF items = << >> THEN << >>
    ELSE IF Head(items).kind = "array" THEN Head(items).elems \o flatMap(Tail(items))
    ELSE << Head(items) >> \o flatMap(Tail(items))

RECURSIVE flatMap_deep(_)
flatMap_deep(items) ==
    IF items = << >> THEN << >>
    ELSE IF Head(items).kind = "array"
         THEN flatMap_deep(Head(items).elems) \o flatMap_deep(Tail(items))
    ELSE << Head(items) >> \o flatMap_deep(Tail(items))

\* budget.startYear of null throws a TypeError
Throws(budget) == budget.kind = "null"

processBudget_noMinusOne(budget) ==
    [kind |-> budget.kind, name |-> budget.name, startYear |-> budget.startYear,
     duration |-> budget.duration, elems |-> budget.elems,
     endYearIsNaN |-> budget.kind # "record",
     endYear |-> IF budget.kind = "record"
                 THEN budget.startYear + budget.duration ELSE 0]

\* { ...budget, endYear: budget.startYear + budget.duration - 1 }; an array
\* has neither field and gets NaN
processBudget(budget) ==
    [kind |-> budget.kind, name |-> budget.name, startYear |-> budget.startYear,
     duration |-> budget.duration, elems |-> budget.elems,
     endYearIsNaN |-> budget.kind # "record",
     endYear |-> IF budget.kind = "record"
                 THEN budget.startYear + budget.duration - 1 ELSE 0]

EmptyBudgets == [overview |-> << >>, budgets |-> << >>]

computeAllBudgets(ov, shared) ==
    IF ov.isNull \/ shared.isNull THEN EmptyBudgets
    ELSE LET flatOverview == flatMap(ov.items)
             flatBudgets  == flatMap(shared.items)
         IN  IF \E i \in 1..Len(flatBudgets) : Throws(flatBudgets[i])
             THEN EmptyBudgets
             ELSE [overview |-> flatOverview,
                   budgets  |-> [i \in 1..Len(flatBudgets) |->
                                    processBudget(flatBudgets[i])]]

computeBudgetCount(all) == Len(all.budgets)

RecA == BudgetRec("A", 2024, 1)

RecB == BudgetRec("B", 2020, 5)

OverviewElements ==
    { RecA, ArrayElem(<< RecB, RecA >>), ArrayElem(<< ArrayElem(<< RecB >>) >>) }

BudgetElements ==
    { RecA, RecB, NullElem, ArrayElem(<< RecB, RecA >>),
      ArrayElem(<< RecA, NullElem >>), ArrayElem(<< ArrayElem(<< RecB >>) >>) }

RECURSIVE Arrays(_, _)
Arrays(elements, n) ==
    IF n = 0 THEN { << >> }
    ELSE LET shorter == Arrays(elements, n - 1)
         IN  shorter \cup { Append(a, e) : a \in shorter, e \in elements }

EmittedOverviews ==
    { NullValue } \cup { ArrayValue(a) : a \in Arrays(OverviewElements, MaxItems) }

EmittedBudgets ==
    { NullValue } \cup { ArrayValue(a) : a \in Arrays(BudgetElements, MaxItems) }

PageInit ==
    /\ overview = NullValue
    /\ sharedBudgets = ArrayValue(<< >>)
    /\ allBudgets = computeAllBudgets(overview, sharedBudgets)
    /\ budgetCount = computeBudgetCount(allBudgets)

OverviewEmits(v) ==
    /\ overview' = v
    /\ allBudgets' = computeAllBudgets(v, sharedBudgets)
    /\ budgetCount' = computeBudgetCount(allBudgets')
    /\ UNCHANGED sharedBudgets

BudgetsEmit(v) ==
    /\ sharedBudgets' = v
    /\ allBudgets' = computeAllBudgets(overview, v)
    /\ budgetCount' = computeBudgetCount(allBudgets')
    /\ UNCHANGED overview

\* ------------------------------------------------------------------------
\* AddNoteToBudgetHandler and the repository it is given
\* ------------------------------------------------------------------------
Procs == { 1, 2 }

\* `${prefix}${arg}`
Text(prefix, arg) == [prefix |-> prefix, arg |-> arg]

NoText == Text("", << >>)

NoNoteId == << >>

\* the messages of the errors the repository raises
RepoErrors == { << "unavailable" >> }

\* Math.random().toString(36).substr(2, 9); "" is what Math.random() = 0 gives
RandomTokens == { "", "4fzyo82mv" }

IdOrg4Budget2 ==
    << "o", "r", "g", US, "4", US, "b", "u", "d", "g", "e", "t", US, "2" >>

IdX2 == << "x", US, "2" >>

IdX9 == << "x", US, "9" >>

HandlerBudgetIds == { IdOrg4Budget2, IdSolo, IdX2, IdX9 }

\* the commands a caller can construct for these budgets
Commands ==
    { c \in { NewCommand(b, Content(<< Run("a", 1) >>), << "u" >>, Date(0, 0), 0) :
                b \in HandlerBudgetIds \cup { << SP >> } } : ~ c.threw }

BudgetDoc(org, key, id) == [orgId |-> org, key |-> key, id |-> id]

\* budgetsRepo.getDocById(id) on orgs/{org}/budgets: the document or nothing
getDocById(org, id) ==
    IF \E d \in budgets : d.orgId = org /\ d.key = id
    THEN [found |-> TRUE,
          id |-> (CHOOSE d \in budgets : d.orgId = org /\ d.key = id).id]
    ELSE [found |-> FALSE, id |-> << >>]

BudgetFound_always(budget) == TRUE

BudgetFound_ignoringId(budget) == budget.found

\* !(!budget || !budget.id)
BudgetFound(budget) == budget.found /\ budget.id # << >>

\* `note_${timestamp}_${random}`
generateNoteId(timestamp, random) == << "note_", timestamp, "_", random >>

errorResult(budgetId, error, timestamp) ==
    [success |-> FALSE, noteId |-> NoNoteId, budgetId |-> budgetId,
     timestamp |-> timestamp, error |-> error]

successResult(budgetId, noteId, timestamp) ==
    [success |-> TRUE, noteId |-> noteId, budgetId |-> budgetId,
     timestamp |-> timestamp, error |-> NoText]

Returned(result) == [threw |-> FALSE, result |-> result]

caught_rethrown(budgetId, message, timestamp) ==
    [threw |-> TRUE,
     result |-> errorResult(budgetId, Text("Handler execution failed: ", message),
                            timestamp)]

\* the catch block of execute
caught(budgetId, message, timestamp) ==
    Returned(errorResult(budgetId, Text("Handler execution failed: ", message),
                         timestamp))

NoNote ==
    [id |-> NoNoteId, budgetId |-> << >>, orgId |-> << >>,
     content |-> NullContent, authorId |-> << >>,
     createdAt |-> NullDate, updatedAt |-> NullDate]

NoOutcome == Returned(errorResult(<< >>, NoText, 0))

\* a call of the repository: how it ended, and the message when it raised
Read(org, id, how, message) ==
    [op |-> "getDocById", orgId |-> org, budgetId |-> id, how |-> how,
     message |-> message]

Write(org, id, how, message) ==
    [op |-> "create", orgId |-> org, budgetId |-> id, how |-> how,
     message |-> message]

HandlerInit ==
    /\ budgets = { BudgetDoc(<< "o", "r", "g", US, "4" >>, IdOrg4Budget2, IdOrg4Budget2),
                   BudgetDoc(IdSolo, IdSolo, IdSolo),
                   BudgetDoc(IdX2, IdX2, << >>) }
    /\ notes = { }
    /\ now = 0
    /\ pc = [p \in Procs |-> "idle"]
    /\ command = [p \in Procs |-> NoCommand]
    /\ orgId = [p \in Procs |-> << >>]
    /\ note = [p \in Procs |-> NoNote]
    /\ outcome = [p \in Procs |-> NoOutcome]
    /\ accesses = [p \in Procs |-> << >>]
    /\ succeeded = << >>
    /\ executes = 0
    /\ deletes = 0

\* !orgId
OrgIdMissing(org) == org = Null \/ org = << >>

\* execute up to its first await: lines 109-133
Execute(p, cmd) ==
    /\ pc[p] \in { "idle", "done" }
    /\ executes < MaxExecutes
    /\ executes' = executes + 1
    /\ command' = [command EXCEPT ![p] = cmd]
    /\ accesses' = [accesses EXCEPT ![p] = << >>]
    /\ note' = [note EXCEPT ![p] = NoNote]
    /\ LET org == extractOrgId(cmd.budgetId)
       IN  IF OrgIdMissing(org)
           THEN /\ orgId' = [orgId EXCEPT ![p] = << >>]
                /\ outcome' = [outcome EXCEPT ![p] =
                      Returned(errorResult(cmd.budgetId,
                                           Text("Invalid budget ID format", << >>), now))]
                /\ pc' = [pc EXCEPT ![p] = "done"]
           ELSE /\ orgId' = [orgId EXCEPT ![p] = org]
                /\ outcome' = [outcome EXCEPT ![p] = NoOutcome]
                /\ pc' = [pc EXCEPT ![p] = "getDocById"]
    /\ UNCHANGED << budgets, notes, now, succeeded, deletes >>

\* getDocById resolves, and execute runs on to its second await: lines 133-166
GetDocByIdReturns(p, random) ==
    /\ pc[p] = "getDocById"
    /\ LET budget == getDocById(orgId[p], command[p].budgetId)
       IN  /\ accesses' = [accesses EXCEPT ![p] =
                 Append(@, Read(orgId[p], command[p].budgetId,
                                IF budget.found /\ budget.id # << >> THEN "found"
                                ELSE IF budget.found THEN "no id" ELSE "nothing",
                                << >>))]
           /\ IF ~ BudgetFound(budget)
              THEN /\ outcome' = [outcome EXCEPT ![p] =
                         Returned(errorResult(command[p].budgetId,
                                 Text("Budget not found: ", command[p].budgetId), now))]
                   /\ pc' = [pc EXCEPT ![p] = "done"]
                   /\ UNCHANGED note
              ELSE /\ note' = [note EXCEPT ![p] =
                         [id |-> generateNoteId(now, random),
                          budgetId |-> command[p].budgetId,
                          orgId |-> orgId[p],
                          content |-> command[p].noteContent,
                          authorId |-> command[p].authorId,
                          createdAt |-> command[p].createdAt,
                          updatedAt |-> DateOf(now)]]
                   /\ pc' = [pc EXCEPT ![p] = "create"]
                   /\ UNCHANGED outcome
    /\ UNCHANGED << budgets, notes, now, command, orgId, succeeded, executes, deletes >>

\* getDocById rejects: the catch block, lines 184-197
GetDocByIdRaises(p, message) ==
    /\ pc[p] = "getDocById"
    /\ accesses' = [accesses EXCEPT ![p] =
          Append(@, Read(orgId[p], command[p].budgetId, "raised", message))]
    /\ outcome' = [outcome EXCEPT ![p] = caught(command[p].budgetId, message, now)]
    /\ pc' = [pc EXCEPT ![p] = "done"]
    /\ UNCHANGED << budgets, notes, now, command, orgId, note, succeeded,
                    executes, deletes >>

\* notesRepo.create(note, noteId) on orgs/{org}/budgets/{budgetId}/notes: the
\* document is set under its key, replacing a document already there
create(org, budgetId, data, key) ==
    { n \in notes : ~ (n.orgId = org /\ n.budgetId = budgetId /\ n.key = key) }
        \cup { [orgId |-> org, budgetId |-> budgetId, key |-> key, data |-> data] }

CreateResolves_unlessBudgetGone(p) ==
    /\ pc[p] = "create"
    /\ accesses' = [accesses EXCEPT ![p] =
          Append(@, Write(orgId[p], command[p].budgetId, "created", << >>))]
    /\ IF BudgetFound(getDocById(orgId[p], command[p].budgetId))
       THEN /\ notes' = create(orgId[p], command[p].budgetId, note[p], note[p].id)
            /\ outcome' = [outcome EXCEPT ![p] =
                  Returned(successResult(command[p].budgetId, note[p].id, now))]
            /\ succeeded' = Append(succeeded,
                  [orgId |-> orgId[p], budgetId |-> command[p].budgetId,
                   noteId |-> note[p].id])
       ELSE /\ outcome' = [outcome EXCEPT ![p] =
                  Returned(errorResult(command[p].budgetId,
                          Text("Budget not found: ", command[p].budgetId), now))]
            /\ UNCHANGED << notes, succeeded >>
    /\ pc' = [pc EXCEPT ![p] = "done"]
    /\ UNCHANGED << budgets, now, command, orgId, note, executes, deletes >>

CreateResolves_updatingBudget(p) ==
    /\ pc[p] = "create"
    /\ accesses' = [accesses EXCEPT ![p] =
          Append(@, Write(orgId[p], command[p].budgetId, "created", << >>))]
    /\ notes' = create(orgId[p], command[p].budgetId, note[p], note[p].id)
    /\ budgets' =
          { d \in budgets : ~ (d.orgId = orgId[p] /\ d.key = command[p].budgetId) }
              \cup { BudgetDoc(orgId[p], command[p].budgetId, command[p].budgetId) }
    /\ outcome' = [outcome EXCEPT ![p] =
          Returned(successResult(command[p].budgetId, note[p].id, now))]
    /\ succeeded' = Append(succeeded,
          [orgId |-> orgId[p], budgetId |-> command[p].budgetId,
           noteId |-> note[p].id])
    /\ pc' = [pc EXCEPT ![p] = "done"]
    /\ UNCHANGED << now, command, orgId, note, executes, deletes >>

\* create resolves, and execute runs to its return: lines 166-182
CreateResolves(p) ==
    /\ pc[p] = "create"
    /\ accesses' = [accesses EXCEPT ![p] =
          Append(@, Write(orgId[p], command[p].budgetId, "created", << >>))]
    /\ notes' = create(orgId[p], command[p].budgetId, note[p], note[p].id)
    /\ outcome' = [outcome EXCEPT ![p] =
          Returned(successResult(command[p].budgetId, note[p].id, now))]
    /\ succeeded' = Append(succeeded,
          [orgId |-> orgId[p], budgetId |-> command[p].budgetId,
           noteId |-> note[p].id])
    /\ pc' = [pc EXCEPT ![p] = "done"]
    /\ UNCHANGED << budgets, now, command, orgId, note, executes, deletes >>

\* create rejects: the catch block, lines 184-197
CreateRaises(p, message) ==
    /\ pc[p] = "create"
    /\ accesses' = [accesses EXCEPT ![p] =
          Append(@, Write(orgId[p], command[p].budgetId, "raised", message))]
    /\ outcome' = [outcome EXCEPT ![p] = caught(command[p].budgetId, message, now)]
    /\ pc' = [pc EXCEPT ![p] = "done"]
    /\ UNCHANGED << budgets, notes, now, command, orgId, note, succeeded,
                    executes, deletes >>

\* another actor deletes a budget document
DeleteBudget(d) ==
    /\ d \in budgets
    /\ deletes < MaxDeletes
    /\ deletes' = deletes + 1
    /\ budgets' = budgets \ { d }
    /\ UNCHANGED << notes, now, pc, command, orgId, note, outcome, accesses,
                    succeeded, executes >>

\* a millisecond passes
Tick ==
    /\ now < MaxClock
    /\ now' = now + 1
    /\ UNCHANGED << budgets, notes, pc, command, orgId, note, outcome, accesses,
                    succeeded, executes, deletes >>

\* ------------------------------------------------------------------------
\* Specifications
\* ------------------------------------------------------------------------
Init == HandlerInit /\ OrgIdIdle /\ CommandIdle /\ PageInit

Others == UNCHANGED << orgIdVars, commandVars, pageVars >>

Next ==
    \/ \E p \in Procs, cmd \in Commands : Execute(p, cmd) /\ Others
    \/ \E p \in Procs, random \in RandomTokens : GetDocByIdReturns(p, random) /\ Others
    \/ \E p \in Procs, message \in RepoErrors : GetDocByIdRaises(p, message) /\ Others
    \/ \E p \in Procs : CreateResolves(p) /\ Others
    \/ \E p \in Procs, message \in RepoErrors : CreateRaises(p, message) /\ Others
    \/ \E d \in budgets : DeleteBudget(d) /\ Others
    \/ Tick /\ Others

Spec == Init /\ [][Next]_vars

InitOrgId == OrgIdInit /\ CommandIdle /\ PageInit /\ HandlerInit

NextOrgId == CallExtractOrgId /\ UNCHANGED << handlerVars, commandVars, pageVars >>

SpecOrgId == InitOrgId /\ [][NextOrgId]_vars

InitCommand == CommandInit /\ OrgIdIdle /\ PageInit /\ HandlerInit

NextCommand ==
    \/ Construct /\ UNCHANGED << handlerVars, orgIdVars, pageVars >>
    \/ Serialize /\ UNCHANGED << handlerVars, orgIdVars, pageVars >>
    \/ Deserialize /\ UNCHANGED << handlerVars, orgIdVars, pageVars >>

SpecCommand == InitCommand /\ [][NextCommand]_vars

\* a command constructed from any budget id, then given to execute
Blanks == { << >>, << SP >> }

ValidatedIdArgs ==
    { Null, IdOrg42Budget99, IdAlphaBetaGamma, IdSolo }
        \cup { a \o b \o c : a \in Blanks, b \in Concats(MaxPieces - 2), c \in Blanks }
        \cup { a \o << SP >> \o b : a, b \in Concats(2) }

InitValidated ==
    /\ HandlerInit /\ OrgIdIdle /\ PageInit
    /\ ctorArgs \in [budgetId : ValidatedIdArgs,
                     noteContent : { Content(<< Run("a", 1) >>) },
                     authorId : { << "u" >> },
                     createdAt : { UndefinedDate }]
    /\ cmdStage = "new"
    /\ constructed = NoCommand
    /\ serialized = NoObject
    /\ restored = NoCommand

ExecuteConstructed(p) ==
    /\ cmdStage = "constructed"
    /\ Execute(p, constructed)

NextValidated ==
    \/ Construct /\ UNCHANGED << handlerVars, orgIdVars, pageVars >>
    \/ \E p \in Procs : ExecuteConstructed(p) /\ Others
    \/ \E p \in Procs, random \in RandomTokens : GetDocByIdReturns(p, random) /\ Others
    \/ \E p \in Procs, message \in RepoErrors : GetDocByIdRaises(p, message) /\ Others

SpecValidated == InitValidated /\ [][NextValidated]_vars

InitPage == PageInit /\ OrgIdIdle /\ CommandIdle /\ HandlerInit

NextPage ==
    \/ \E v \in EmittedOverviews :
          OverviewEmits(v) /\ UNCHANGED << handlerVars, orgIdVars, commandVars >>
    \/ \E v \in EmittedBudgets :
          BudgetsEmit(v) /\ UNCHANGED << handlerVars, orgIdVars, commandVars >>

SpecPage == InitPage /\ [][NextPage]_vars

\* ------------------------------------------------------------------------
\* The rules of the command, stated on the constructor's arguments
\* ------------------------------------------------------------------------
AllBlank(str) == \A i \in 1..Len(str) : str[i] = SP

MissingOrBlank(str) == str = Null \/ AllBlank(str)

RuleBudgetId == MissingOrBlank(ctorArgs.budgetId)

RuleAuthorId == MissingOrBlank(ctorArgs.authorId)

RuleContentBlank ==
    \/ ctorArgs.noteContent.isNull
    \/ \A i \in 1..Len(ctorArgs.noteContent.runs) :
          \/ ctorArgs.noteContent.runs[i].n = 0
          \/ ctorArgs.noteContent.runs[i].ch = SP

RuleContentTooLong ==
    /\ ~ ctorArgs.noteContent.isNull
    /\ RunsLength(ctorArgs.noteContent.runs) > 5000

RuleCreatedAt ==
    /\ ctorArgs.createdAt.kind # "undefined"
    /\ ctorArgs.createdAt.kind # "Date" \/ ctorArgs.createdAt.nan

Listed(msg) == \E i \in 1..Len(constructed.errors) : constructed.errors[i] = msg

ListedTooLong ==
    \E i \in 1..Len(constructed.errors) :
        /\ Len(constructed.errors[i]) = 3
        /\ constructed.errors[i][2] = RunsLength(ctorArgs.noteContent.runs)

Constructed == cmdStage \in { "threw", "constructed" }

FailsIffSomeRuleViolated ==
    constructed.threw <=>
        (RuleBudgetId \/ RuleContentBlank \/ RuleContentTooLong
            \/ RuleAuthorId \/ RuleCreatedAt)

\* C4 as stated: construction fails whenever a rule is violated, and the
\* error lists every violated rule, the blank rule and the length rule of the
\* content both when the content is blank and too long.
C4_ListsEveryViolatedRule ==
    Constructed =>
        /\ FailsIffSomeRuleViolated
        /\ RuleBudgetId => Listed(MsgBudgetIdRequired)
        /\ RuleContentBlank => Listed(MsgContentRequired)
        /\ RuleContentTooLong => ListedTooLong
        /\ RuleAuthorId => Listed(MsgAuthorIdRequired)
        /\ RuleCreatedAt => Listed(MsgCreatedNotDate) \/ Listed(MsgCreatedInvalid)

\* C4 amended: construction fails whenever a rule is violated, and the error
\* lists one message for every field whose rule is violated; for the content
\* that message is "Note content is required" when it is empty or blank, also
\* when it is longer than 5000 characters as well, and the length message
\* only when it is too long and not blank.
C4_ListsOneMessagePerViolatedField ==
    Constructed =>
        /\ FailsIffSomeRuleViolated
        /\ RuleBudgetId <=> Listed(MsgBudgetIdRequired)
        /\ RuleContentBlank <=> Listed(MsgContentRequired)
        /\ (RuleContentTooLong /\ ~ RuleContentBlank) <=> ListedTooLong
        /\ RuleAuthorId <=> Listed(MsgAuthorIdRequired)
        /\ RuleCreatedAt <=> (Listed(MsgCreatedNotDate) \/ Listed(MsgCreatedInvalid))

\* a construction that failed on all four fields at once
C4_Witness ==
    /\ cmdStage = "threw"
    /\ RuleBudgetId /\ RuleAuthorId /\ RuleCreatedAt
    /\ RuleContentTooLong /\ ~ RuleContentBlank
    /\ Len(constructed.errors) = 4

\* C5: for every constructed command c, fromObject(toObject(c)) constructs
\* without error and has the budgetId, noteContent, authorId and createdAt
\* instant of c.
C5_RoundTrip ==
    cmdStage = "restored" =>
        /\ ~ restored.threw
        /\ restored.budgetId = constructed.budgetId
        /\ restored.noteContent = constructed.noteContent
        /\ restored.authorId = constructed.authorId
        /\ IsDate(restored.createdAt) /\ ~ IsNaNTime(restored.createdAt)
        /\ restored.createdAt.day = constructed.createdAt.day
        /\ restored.createdAt.ms = constructed.createdAt.ms

\* a command created on 2024-02-29T12:34:56.789Z came back
C5_Witness ==
    /\ cmdStage = "restored"
    /\ constructed.createdAt = Date(19782, 45296789)
    /\ serialized.createdAt =
          [year |-> 2024, month |-> 2, date |-> 29, hours |-> 12,
           minutes |-> 34, seconds |-> 56, millis |-> 789]
    /\ ~ restored.threw

\* ------------------------------------------------------------------------
\* The tiers of the orgId rule, stated on the characters of the budget id
\* ------------------------------------------------------------------------
HasUnderscore(id) == \E i \in 1..Len(id) : id[i] = US

\* the end of the token of an id of the form org_<token>_budget_..., 0 when
\* the id has no such form
TokenEnd(id) ==
    IF \E k \in 5..Len(id) :
            /\ SubSeq(id, 1, 4) = << "o", "r", "g", US >>
            /\ \A j \in 5..k : id[j] # US
            /\ Len(id) >= k + 8
            /\ SubSeq(id, k + 1, k + 8) = << US, "b", "u", "d", "g", "e", "t", US >>
    THEN CHOOSE k \in 5..Len(id) :
            /\ \A j \in 5..k : id[j] # US
            /\ id[k + 1] = US
    ELSE 0

FirstUnderscore(id) ==
    CHOOSE i \in 1..Len(id) : id[i] = US /\ \A j \in 1..(i - 1) : id[j] # US

\* the first two underscore-delimited segments, joined by an underscore:
\* the id up to its second underscore, or all of it when it has only one
FirstTwoSegments(id) ==
    LET i1 == FirstUnderscore(id)
    IN  IF \E i \in (i1 + 1)..Len(id) : id[i] = US
        THEN LET i2 == CHOOSE i \in (i1 + 1)..Len(id) :
                          id[i] = US /\ \A j \in (i1 + 1)..(i - 1) : id[j] # US
             IN  SubSeq(id, 1, i2 - 1)
        ELSE id

TieredOrgId(id) ==
    IF TokenEnd(id) > 0 THEN SubSeq(id, 1, TokenEnd(id))
    ELSE IF HasUnderscore(id) THEN FirstTwoSegments(id)
    ELSE id

\* C6: for every budget id, extractOrgId returns org_<token> for an id that
\* starts with org_<token>_budget_, else the first two underscore-delimited
\* segments joined by an underscore for an id with an underscore, else the
\* whole id; org_42_budget_99 gives org_42, alpha_beta_gamma gives
\* alpha_beta and solo gives solo.
C6_TieredOrgId ==
    (orgIdStage = "returned" /\ IsString(budgetIdArg)) =>
        /\ orgIdRet = TieredOrgId(budgetIdArg)
        /\ budgetIdArg = IdOrg42Budget99 =>
              orgIdRet = << "o", "r", "g", US, "4", "2" >>
        /\ budgetIdArg = IdAlphaBetaGamma =>
              orgIdRet = << "a", "l", "p", "h", "a", US, "b", "e", "t", "a" >>
        /\ budgetIdArg = IdSolo => orgIdRet = IdSolo

\* extractOrgId returned for alpha_beta_gamma, an id of the second tier
C6_Witness ==
    /\ orgIdStage = "returned"
    /\ budgetIdArg = IdAlphaBetaGamma
    /\ TokenEnd(budgetIdArg) = 0 /\ HasUnderscore(budgetIdArg)
    /\ orgIdRet = << "a", "l", "p", "h", "a", US, "b", "e", "t", "a" >>

\* ------------------------------------------------------------------------
\* The budget list, stated element by element
\* ------------------------------------------------------------------------
\* how many elements an element contributes to a list flattened one level
Width(e) == IF e.kind = "array" THEN Len(e.elems) ELSE 1

RECURSIVE WidthBefore(_, _)
WidthBefore(items, i) ==
    IF i <= 1 THEN 0 ELSE WidthBefore(items, i - 1) + Width(items[i - 1])

\* flat is items flattened exactly one level
IsFlattenedOnce(flat, items) ==
    /\ Len(flat) = WidthBefore(items, Len(items) + 1)
    /\ \A i \in 1..Len(items) :
          IF items[i].kind = "array"
          THEN \A j \in 1..Len(items[i].elems) :
                  flat[WidthBefore(items, i) + j] = items[i].elems[j]
          ELSE flat[WidthBefore(items, i) + 1] = items[i]

\* the input of budget b of the result: its fields without endYear
WithoutEndYear(b) ==
    [kind |-> b.kind, name |-> b.name, startYear |-> b.startYear,
     duration |-> b.duration, elems |-> b.elems]

\* a null among the budgets after flattening: the internal failure
UnexpectedShape ==
    \E i \in 1..Len(sharedBudgets.items) :
        \/ sharedBudgets.items[i].kind = "null"
        \/ /\ sharedBudgets.items[i].kind = "array"
           /\ \E j \in 1..Len(sharedBudgets.items[i].elems) :
                 sharedBudgets.items[i].elems[j].kind = "null"

\* C8: with a null input the result is {overview: [], budgets: []};
\* otherwise overview and budgets are the inputs flattened exactly one level
\* and every record of budgets has endYear = startYear + duration - 1 and
\* its other fields unchanged; budgetCount is the length of budgets; an
\* internal failure gives {overview: [], budgets: []}.
C8_BudgetList ==
    /\ budgetCount = Len(allBudgets.budgets)
    /\ (overview.isNull \/ sharedBudgets.isNull) => allBudgets = EmptyBudgets
    /\ (~ overview.isNull /\ ~ sharedBudgets.isNull /\ UnexpectedShape) =>
          allBudgets = EmptyBudgets
    /\ (~ overview.isNull /\ ~ sharedBudgets.isNull /\ ~ UnexpectedShape) =>
          /\ IsFlattenedOnce(allBudgets.overview, overview.items)
          /\ IsFlattenedOnce([i \in 1..Len(allBudgets.budgets) |->
                                 WithoutEndYear(allBudgets.budgets[i])],
                             sharedBudgets.items)
          /\ \A i \in 1..Len(allBudgets.budgets) :
                allBudgets.budgets[i].kind = "record" =>
                    /\ ~ allBudgets.budgets[i].endYearIsNaN
                    /\ allBudgets.budgets[i].endYear =
                          allBudgets.budgets[i].startYear
                              + allBudgets.budgets[i].duration - 1

\* nested inputs gave three budgets, the first B with endYear 2024, and an
\* overview that still holds an array
C8_Witness ==
    /\ sharedBudgets = ArrayValue(<< ArrayElem(<< RecB, RecA >>), RecA >>)
    /\ overview = ArrayValue(<< ArrayElem(<< ArrayElem(<< RecB >>) >>) >>)
    /\ budgetCount = 3
    /\ allBudgets.budgets[1].endYear = 2024
    /\ allBudgets.overview = << ArrayElem(<< RecB >>) >>

\* ------------------------------------------------------------------------
\* The handler's claims
\* ------------------------------------------------------------------------
LastAccess(p) == accesses[p][Len(accesses[p])]

Raised(p) == Len(accesses[p]) > 0 /\ LastAccess(p).how = "raised"

\* C1: execute never raises to its caller: however the repository behaves,
\* an execution that has ended gave a result, and when the read or the write
\* raised, the result is the error variant (success false, no noteId) with
\* the text 'Handler execution failed: ' and the message of the error.
C1_NeverRaises ==
    \A p \in Procs :
        pc[p] = "done" =>
            /\ ~ outcome[p].threw
            /\ outcome[p].result.budgetId = command[p].budgetId
            /\ Raised(p) =>
                  /\ ~ outcome[p].result.success
                  /\ outcome[p].result.noteId = NoNoteId
                  /\ outcome[p].result.error =
                        Text("Handler execution failed: ", LastAccess(p).message)

\* an execution ended after create raised "unavailable"
C1_Witness ==
    \E p \in Procs :
        /\ pc[p] = "done"
        /\ Len(accesses[p]) = 2
        /\ LastAccess(p).op = "create" /\ LastAccess(p).how = "raised"
        /\ outcome[p].result.error =
              Text("Handler execution failed: ", << "unavailable" >>)

\* C2: when the lookup returns nothing, or a record lacking an id, execute
\* returns the error variant with the text 'Budget not found: <budgetId>',
\* makes no create call and leaves the notes as they were.
C2_NotFound ==
    [][\A p \in Procs :
          (/\ pc[p] = "getDocById"
           /\ Len(accesses'[p]) = 1
           /\ accesses'[p][1].how \in { "nothing", "no id" })
          => /\ pc'[p] = "done"
             /\ ~ outcome'[p].threw
             /\ ~ outcome'[p].result.success
             /\ outcome'[p].result.noteId = NoNoteId
             /\ outcome'[p].result.error =
                   Text("Budget not found: ", command[p].budgetId)
             /\ notes' = notes]_vars

\* an execution for x_2, whose record lacks an id, ended with the error
C2_Witness ==
    \E p \in Procs :
        /\ pc[p] = "done"
        /\ accesses[p] = << Read(IdX2, IdX2, "no id", << >>) >>
        /\ outcome[p].result.error = Text("Budget not found: ", IdX2)

NotesOf(all, org, budgetId) ==
    { n \in all : n.orgId = org /\ n.budgetId = budgetId }

\* C3 as stated: with an existing budget and a repository that does not
\* fail, execute returns the success variant with a non-empty noteId, and
\* the notes of the budget, under the orgId derived from the budgetId, gain
\* exactly one new document, keyed by that noteId, with the command's
\* budgetId, noteContent, authorId and createdAt.
C3_OneNewNote ==
    [][\A p \in Procs :
          /\ (/\ pc[p] = "getDocById"
              /\ Len(accesses'[p]) = 1
              /\ accesses'[p][1].how = "found")
             => pc'[p] = "create"
          /\ (/\ pc[p] = "create"
              /\ Len(accesses'[p]) = 2
              /\ accesses'[p][2].how = "created")
             => /\ pc'[p] = "done"
                /\ outcome'[p].result.success
                /\ outcome'[p].result.noteId # NoNoteId
                /\ LET org  == TieredOrgId(command[p].budgetId)
                       old  == NotesOf(notes, org, command[p].budgetId)
                       new  == NotesOf(notes', org, command[p].budgetId)
                   IN  /\ \A n \in old : n.key # outcome'[p].result.noteId
                       /\ \E n \in new :
                             /\ new = old \cup { n }
                             /\ n.key = outcome'[p].result.noteId
                             /\ n.data.budgetId = command[p].budgetId
                             /\ n.data.content = command[p].noteContent
                             /\ n.data.authorId = command[p].authorId
                             /\ n.data.createdAt = command[p].createdAt
                       /\ notes' \ new = notes \ old]_vars

\* C7 as stated: the note ids of the successful executes of a budget are
\* pairwise distinct, no execute replaces a note of an earlier one, and the
\* notes of a budget are as many as its successful executes.
C7_UniqueAppendOnly ==
    /\ \A i, j \in 1..Len(succeeded) :
          (i # j /\ succeeded[i].orgId = succeeded[j].orgId
                 /\ succeeded[i].budgetId = succeeded[j].budgetId)
          => succeeded[i].noteId # succeeded[j].noteId
    /\ \A b \in HandlerBudgetIds :
          Cardinality(NotesOf(notes, TieredOrgId(b), b)) =
              Cardinality({ i \in 1..Len(succeeded) : succeeded[i].budgetId = b })

\* C9: an execution makes at most one read, getDocById on the budgets of
\* the orgId for the command's budgetId, and at most one write, create on
\* the notes of that budget; the write comes after a read that returned a
\* budget with an id, and nothing follows the write.
C9_OneReadThenOneWrite ==
    \A p \in Procs :
        /\ Len(accesses[p]) <= 2
        /\ \A i \in 1..Len(accesses[p]) :
              /\ accesses[p][i].orgId = orgId[p]
              /\ accesses[p][i].budgetId = command[p].budgetId
        /\ Len(accesses[p]) >= 1 => accesses[p][1].op = "getDocById"
        /\ Len(accesses[p]) = 2 =>
              /\ accesses[p][1].how = "found"
              /\ accesses[p][2].op = "create"
              /\ pc[p] = "done"
        /\ pc[p] = "getDocById" => accesses[p] = << >>
        /\ pc[p] = "create" => Len(accesses[p]) = 1

\* an execution ended after its read and its write
C9_Witness ==
    \E p \in Procs :
        /\ pc[p] = "done"
        /\ Len(accesses[p]) = 2
        /\ accesses[p][1].op = "getDocById" /\ accesses[p][1].how = "found"
        /\ accesses[p][2].op = "create" /\ accesses[p][2].how = "created"

BudgetExists(org, budgetId) == \E d \in budgets : d.orgId = org /\ d.key = budgetId

\* C10: the existence check and the write are not atomic: when the budget
\* was deleted after getDocById returned it, a create that the repository
\* accepts still writes the note and execute returns the success variant.
C10_WriteAfterDelete ==
    [][\A p \in Procs :
          (/\ pc[p] = "create"
           /\ ~ BudgetExists(orgId[p], command[p].budgetId)
           /\ Len(accesses'[p]) = 2
           /\ accesses'[p][2].how = "created")
          => /\ pc'[p] = "done"
             /\ outcome'[p].result.success
             /\ outcome'[p].result.noteId = note[p].id
             /\ \E n \in notes' :
                   /\ n.orgId = orgId[p] /\ n.budgetId = command[p].budgetId
                   /\ n.key = note[p].id]_vars

\* an orphaned note: execute succeeded for a budget it had read, and the
\* note it wrote is of a budget that no longer exists
C10_OrphanedNote ==
    \E p \in Procs :
        /\ pc[p] = "done"
        /\ accesses[p][1].how = "found"
        /\ outcome[p].result.success
        /\ ~ BudgetExists(orgId[p], command[p].budgetId)
        /\ \E n \in notes :
              /\ n.orgId = orgId[p] /\ n.budgetId = command[p].budgetId
              /\ n.key = outcome[p].result.noteId

\* a step of execution p: its start, or one of its continuations
StepOf(p) == pc'[p] # pc[p] \/ accesses'[p] # accesses[p] \/ command'[p] # command[p]

C12_NeverInvalidFormat ==
    \A p \in Procs :
        pc[p] # "idle" =>
            /\ ~ command[p].threw
            /\ IsString(command[p].budgetId)
            /\ \E i \in 1..Len(command[p].budgetId) : command[p].budgetId[i] # SP
            /\ IsString(orgId[p]) /\ Len(orgId[p]) > 0
            /\ outcome[p].result.error # Text("Invalid budget ID format", << >>)
            /\ pc[p] = "done" =>
                  /\ Len(accesses[p]) >= 1
                  /\ accesses[p][1].op = "getDocById"

\* execute reached the lookup for the constructed command of budget id " x "
\* and ended with budget not found
C12_Witness ==
    \E p \in Procs :
        /\ cmdStage = "constructed"
        /\ pc[p] = "done"
        /\ command[p] = constructed
        /\ command[p].budgetId = << SP, "x", SP >>
        /\ orgId[p] = << SP, "x", SP >>
        /\ accesses[p][1].how = "nothing"

====
